---- MODULE Spec2Model ----
(***************************************************************************)
(* Model of the realtime speech-to-text relay: app/main.py (ws_endpoint    *)
(* and its two pumps), app/realtime.py (OpenAIRealtimeSession) and         *)
(* app/buffers.py (RingLog).                                               *)
(***************************************************************************)
EXTENDS Integers, Sequences, FiniteSets, TLC

(***************************************************************************)
(* Python floats (binary64), restricted to the non-negative values the     *)
(* audio clock takes.  A value is [exp, man]: man is the 53-bit            *)
(* significand followed by three zero bits, written as four limbs of       *)
(* LimbBits bits, most significant first; the value is                     *)
(* (significand / 2^52) * 2^exp, and Zero has all limbs 0.  Arithmetic     *)
(* works in the 56-bit register (guard, round and sticky bit) and rounds   *)
(* to nearest, ties to even, as the hardware does.                         *)
(***************************************************************************)
Pow2 == <<1, 2, 4, 8, 16, 32, 64, 128, 256, 512, 1024, 2048, 4096, 8192, 16384>>

LimbBits == Len(Pow2) - 1

\* 2^k for k in 0..LimbBits
P2(k) == Pow2[k + 1]

Base == P2(LimbBits)

Zero == [exp |-> 0, man |-> <<0, 0, 0, 0>>]

IsZero(x) == x.man = <<0, 0, 0, 0>>

\* limb j of register R, zero outside it
Limb(R, j) == IF j >= 1 /\ j <= 4 THEN R[j] ELSE 0

\* R with its lowest bit set when st holds (the sticky bit)
OrSticky(R, st) == IF st /\ R[4] % 2 = 0 THEN [R EXCEPT ![4] = R[4] + 1] ELSE R

\* R shifted right by sh bits, the bits shifted out kept as the sticky bit
ShiftRight(R, sh) ==
    LET k == sh \div LimbBits
        b == sh % LimbBits
        lost == (\E j \in 1..4 : j > 4 - k /\ R[j] # 0) \/ Limb(R, 4 - k) % P2(b) # 0
    IN  OrSticky([i \in 1..4 |->
                    (Limb(R, i - k - 1) % P2(b)) * P2(LimbBits - b)
                    + Limb(R, i - k) \div P2(b)], lost)

\* R shifted left by sh bits (the bits shifted out are zero)
ShiftLeft(R, sh) ==
    LET k == sh \div LimbBits
        b == sh % LimbBits
    IN  [i \in 1..4 |->
            (Limb(R, i + k) % P2(LimbBits - b)) * P2(b)
            + Limb(R, i + k + 1) \div P2(LimbBits - b)]

\* the number of bits of v, 0 < v < Base
BitLen(v) == CHOOSE n \in 1..LimbBits : P2(n - 1) <= v /\ v < P2(n)

\* the number of leading zero bits of a non-zero register
LeadingZeros(R) ==
    LET i == CHOOSE j \in 1..4 : R[j] # 0 /\ \A h \in 1..(j - 1) : R[h] = 0
    IN  (i - 1) * LimbBits + (LimbBits - BitLen(R[i]))

\* A + B as <<carry, l1, l2, l3, l4>>
AddReg(A, B) ==
    LET s4 == A[4] + B[4]
        s3 == A[3] + B[3] + s4 \div Base
        s2 == A[2] + B[2] + s3 \div Base
        s1 == A[1] + B[1] + s2 \div Base
    IN  <<s1 \div Base, s1 % Base, s2 % Base, s3 % Base, s4 % Base>>

\* A - B for registers A >= B
SubReg(A, B) ==
    LET d4 == A[4] - B[4]
        d3 == A[3] - B[3] - (IF d4 < 0 THEN 1 ELSE 0)
        d2 == A[2] - B[2] - (IF d3 < 0 THEN 1 ELSE 0)
        d1 == A[1] - B[1] - (IF d2 < 0 THEN 1 ELSE 0)
    IN  <<d1, (d2 + Base) % Base, (d3 + Base) % Base, (d4 + Base) % Base>>

\* Round the register (leading bit set) to 53 bits, nearest, ties to even.
RoundReg(R, e) ==
    LET rem == R[4] % 8
        lsb == (R[4] \div 8) % 2
        up  == rem > 4 \/ (rem = 4 /\ lsb = 1)
        t4  == R[4] - rem + (IF up THEN 8 ELSE 0)
        t3  == R[3] + t4 \div Base
        t2  == R[2] + t3 \div Base
        t1  == R[1] + t2 \div Base
    IN  IF t1 >= Base
        THEN [exp |-> e + 1, man |-> <<Base \div 2, 0, 0, 0>>]
        ELSE [exp |-> e, man |-> <<t1, t2 % Base, t3 % Base, t4 % Base>>]

\* num/den scaled into [1, 2): the exponent and the scaled pair
RECURSIVE Scale(_, _, _)
Scale(num, den, e) ==
    IF num >= 2 * den THEN Scale(num, 2 * den, e + 1)
    ELSE IF num < den THEN Scale(2 * num, den, e - 1)
    ELSE [num |-> num, den |-> den, exp |-> e]

\* The float nearest to the rational num/den (num >= 0, 0 < den < 2^16):
\* long division, one limb of the quotient at a time.
FDiv(num, den) ==
    IF num = 0 THEN Zero
    ELSE LET s  == Scale(num, den, 0)
             n1 == s.num * P2(LimbBits - 1)
             n2 == (n1 % s.den) * Base
             n3 == (n2 % s.den) * Base
             n4 == (n3 % s.den) * Base
         IN  RoundReg(OrSticky(<<n1 \div s.den, n2 \div s.den, n3 \div s.den,
                                 n4 \div s.den>>, n4 % s.den # 0), s.exp)

\* x <= y on floats
FLe(x, y) ==
    IF IsZero(x) THEN TRUE
    ELSE IF IsZero(y) THEN FALSE
    ELSE IF x.exp # y.exp THEN x.exp < y.exp
    ELSE \/ x.man = y.man
         \/ \E i \in 1..4 : x.man[i] < y.man[i] /\ \A h \in 1..(i - 1) : x.man[h] = y.man[h]

\* hi + lo for floats hi >= lo > 0
FAddOrdered(hi, lo) ==
    LET sh == hi.exp - lo.exp
        s  == AddReg(hi.man, ShiftRight(lo.man, IF sh > 60 THEN 60 ELSE sh))
        r  == <<s[2], s[3], s[4], s[5]>>
    IN  IF s[1] = 0 THEN RoundReg(r, hi.exp)
        ELSE RoundReg(OrSticky([ShiftRight(r, 1) EXCEPT ![1] = @ + Base \div 2], FALSE),
                      hi.exp + 1)

\* x + y as Python computes it for floats
FAdd(x, y) ==
    IF IsZero(x) THEN y
    ELSE IF IsZero(y) THEN x
    ELSE IF FLe(y, x) THEN FAddOrdered(x, y) ELSE FAddOrdered(y, x)

\* x - y as Python computes it for floats x >= y >= 0
FSub(x, y) ==
    IF IsZero(y) THEN x
    ELSE LET sh == x.exp - y.exp
             d  == SubReg(x.man, ShiftRight(y.man, IF sh > 60 THEN 60 ELSE sh))
         IN  IF d = <<0, 0, 0, 0>> THEN Zero
             ELSE LET z == LeadingZeros(d)
                  IN  RoundReg(ShiftLeft(d, z), x.exp - z)

(***************************************************************************)
(* Strings are sequences of one-character strings, bytes are sequences of  *)
(* numbers in 0..255.                                                      *)
(***************************************************************************)
B64Alphabet == <<
    "A", "B", "C", "D", "E", "F", "G", "H", "I", "J", "K", "L", "M", "N", "O", "P",
    "Q", "R", "S", "T", "U", "V", "W", "X", "Y", "Z", "a", "b", "c", "d", "e", "f",
    "g", "h", "i", "j", "k", "l", "m", "n", "o", "p", "q", "r", "s", "t", "u", "v",
    "w", "x", "y", "z", "0", "1", "2", "3", "4", "5", "6", "7", "8", "9", "+", "/" >>

\* byte i of raw, 0 past its end
ByteAt(raw, i) == IF i <= Len(raw) THEN raw[i] ELSE 0

\* realtime.py b64_audio_pcm16: base64.b64encode(raw).decode("ascii")
b64_audio_pcm16(raw) ==
    [p \in 1..(4 * ((Len(raw) + 2) \div 3)) |->
        LET j    == (p - 1) \div 4
            slot == (p - 1) % 4
            v    == ByteAt(raw, 3 * j + 1) * 65536 + ByteAt(raw, 3 * j + 2) * 256
                    + ByteAt(raw, 3 * j + 3)
            six  == CASE slot = 0 -> v \div 262144
                      [] slot = 1 -> (v \div 4096) % 64
                      [] slot = 2 -> (v \div 64) % 64
                      [] OTHER    -> v % 64
        IN  IF slot >= 2 /\ 3 * j + slot > Len(raw) THEN "="
            ELSE B64Alphabet[six + 1]]

\* Python's  sub in s  for strings
Contains(s, sub) ==
    \E i \in 1..(Len(s) - Len(sub) + 1) : SubSeq(s, i, i + Len(sub) - 1) = sub

(***************************************************************************)
(* JSON values as json.loads returns them: None, str, a number, dict.      *)
(* A frame on a socket is text that json.loads parses to a value, or text  *)
(* it rejects.                                                             *)
(***************************************************************************)
JNull == [t |-> "null"]

JStr(str) == [t |-> "str", s |-> str]

JNum(n) == [t |-> "num", n |-> n]

\* a dict; f is a record, its field names the keys
JObj(f) == [t |-> "obj", f |-> f]

\* a float as a JSON number
JFloat(x) == [t |-> "float", x |-> x]

IsStr(j) == j.t = "str"

IsDict(j) == j.t = "obj"

\* Python's truth value of j
Truthy(j) ==
    CASE j.t = "null"  -> FALSE
      [] j.t = "str"   -> j.s # <<>>
      [] j.t = "num"   -> j.n # 0
      [] j.t = "float" -> ~IsZero(j.x)
      [] OTHER         -> DOMAIN j.f # {}

\* d.get(k) for a dict d
Get(d, k) == IF k \in DOMAIN d.f THEN d.f[k] ELSE JNull

\* the text json.dumps(v) writes, and text json.loads rejects
JsonText(v) == [json |-> TRUE, data |-> v]

NotJson == [json |-> FALSE]

\* realtime.py safe_get(d, path, default); path is the dotted path, split
RECURSIVE safe_get(_, _, _)
safe_get(d, path, default) ==
    IF path = <<>> THEN d
    ELSE IF ~IsDict(d) \/ Head(path) \notin DOMAIN d.f THEN default
    ELSE safe_get(d.f[Head(path)], Tail(path), default)

TextKeys == <<"text", "text_delta", "transcript", "transcript_delta">>

\* x or y
PyOr(x, y) == IF Truthy(x) THEN x ELSE y

\* realtime.py extract_text(d): [raised, v], v the str returned or JNull for None
extract_text(d) ==
    LET hits == {i \in 1..Len(TextKeys) :
                    IsStr(Get(d, TextKeys[i])) /\ Truthy(Get(d, TextKeys[i]))}
        audio == PyOr(Get(d, "audio"), JObj(<<>>))
        v == PyOr(PyOr(Get(audio, "transcript"), Get(d, "transcription")),
                  safe_get(d, <<"response", "output_text">>, JNull))
    IN  IF hits # {}
        THEN [raised |-> FALSE,
              v |-> Get(d, TextKeys[CHOOSE i \in hits : \A h \in hits : i <= h])]
        ELSE IF ~IsDict(audio) THEN [raised |-> TRUE, v |-> JNull]
        ELSE IF IsStr(v) /\ Truthy(v) THEN [raised |-> FALSE, v |-> v]
        ELSE [raised |-> FALSE, v |-> JNull]

DOT_DELTA == <<".", "d", "e", "l", "t", "a">>

DOT_PARTIAL == <<".", "p", "a", "r", "t", "i", "a", "l">>

DOT_DONE == <<".", "d", "o", "n", "e">>

DOT_COMPLETED == <<".", "c", "o", "m", "p", "l", "e", "t", "e", "d">>

DOT_FINAL == <<".", "f", "i", "n", "a", "l">>

PartialMarkers == {DOT_DELTA, DOT_PARTIAL}

FinalMarkers == {DOT_DONE, DOT_COMPLETED, DOT_FINAL}

\* realtime.py line 150: any(s in evt_type for s in (".delta", ".partial"))
is_partial(evt_type) == \E m \in PartialMarkers : Contains(evt_type, m)

\* is_final that knows ".done" only
is_final_done_only(evt_type) == Contains(evt_type, DOT_DONE)

\* realtime.py line 151: any(s in evt_type for s in (".done", ".completed", ".final"))
is_final(evt_type) == \E m \in FinalMarkers : Contains(evt_type, m)

\* The body of the loop of realtime.py events() for one frame msg:
\* "skip" (continue), "raise" (an exception leaves the generator) or
\* "yield" with the event.  An evt_type that is no str makes  s in evt_type
\* raise TypeError (evt_type is drawn from str, numbers and None).
events_step(msg) ==
    IF ~msg.json THEN [out |-> "skip"]
    ELSE IF ~IsDict(msg.data) THEN [out |-> "raise"]
    ELSE LET data     == msg.data
             evt_type == IF "type" \in DOMAIN data.f THEN data.f["type"] ELSE JStr(<<>>)
             text     == extract_text(data)
         IN  IF ~IsStr(evt_type) \/ text.raised THEN [out |-> "raise"]
             ELSE [out |-> "yield",
                   evt |-> [event_type |-> evt_type.s,
                            partial    |-> is_partial(evt_type.s) /\ ~is_final(evt_type.s),
                            final      |-> is_final(evt_type.s),
                            text       |-> IF Truthy(text.v) THEN text.v.s ELSE <<>>,
                            start_s    |-> safe_get(data, <<"audio", "start_time_s">>, JNull),
                            end_s      |-> safe_get(data, <<"audio", "end_time_s">>, JNull),
                            raw        |-> data]]

(***************************************************************************)
(* buffers.py RingLog: a deque with maxlen = capacity.                     *)
(***************************************************************************)
\* RingLog.add(item): append, the oldest entry leaves a full deque
RingLog_add(dq, capacity, item) ==
    IF capacity = 0 THEN <<>>
    ELSE IF Len(dq) >= capacity THEN Append(Tail(dq), item)
    ELSE Append(dq, item)

\* latest without the test of limit: list(self._dq)[-limit:] alone
RingLog_latest_slice(dq, limit) ==
    IF limit <= 0 THEN SubSeq(dq, 1 - limit, Len(dq))
    ELSE SubSeq(dq, (IF Len(dq) > limit THEN Len(dq) - limit + 1 ELSE 1), Len(dq))

\* RingLog.latest(limit): list(self._dq)[-limit:], [] for limit <= 0
RingLog_latest(dq, limit) ==
    IF limit <= 0 THEN <<>>
    ELSE SubSeq(dq, (IF Len(dq) > limit THEN Len(dq) - limit + 1 ELSE 1), Len(dq))

(***************************************************************************)
(* Settings (config.py) and the bounds of the runs.                        *)
(***************************************************************************)
SAMPLE_RATE == 16000

\* settings.RING_SIZE, read from the environment; small here so that logs fill
RING_SIZE == 2

server_vad_silence_ms == 550

\* the client connections
NumSessions == 2

Sessions == 1..NumSessions

\* the most frames a client sends on one connection
MaxFrames == 3

\* the most frames the upstream service sends on one connection
MaxEvents == 2

\* the most extra close() calls a caller makes after the handler's own
MaxExtraClose == 2

\* the binary frames clients send: PCM16 of 0, 3 and 6 samples
Raws == << <<>>, <<0, 1, 2, 3, 4, 5>>, <<250, 251, 252, 253, 254, 255, 0, 128, 64, 32, 16, 8>> >>

STR_RESET == <<"r", "e", "s", "e", "t">>

STR_FLUSH == <<"f", "l", "u", "s", "h">>

STR_PING == <<"p", "i", "n", "g">>

\* the text frames clients send: reset, flush, an unknown command, text that
\* is no JSON, JSON that is no object
ClientTexts == <<
    JsonText(JObj([type |-> JStr(STR_RESET)])),
    JsonText(JObj([type |-> JStr(STR_FLUSH)])),
    JsonText(JObj([type |-> JStr(STR_PING)])),
    NotJson,
    JsonText(JNum(7)) >>

T_ITEM_DELTA == <<
    "c", "o", "n", "v", "e", "r", "s", "a", "t", "i", "o", "n", ".", "i", "t", "e", "m",
    ".", "i", "n", "p", "u", "t", "_", "a", "u", "d", "i", "o", "_", "t", "r", "a", "n",
    "s", "c", "r", "i", "p", "t", "i", "o", "n", ".", "d", "e", "l", "t", "a" >>

T_RESP_DONE == <<
    "r", "e", "s", "p", "o", "n", "s", "e", ".", "a", "u", "d", "i", "o", "_", "t", "r",
    "a", "n", "s", "c", "r", "i", "p", "t", ".", "d", "o", "n", "e" >>

T_BOTH == <<"x", ".", "d", "e", "l", "t", "a", ".", "d", "o", "n", "e">>

T_PLAIN == <<"r", "e", "s", "p", "o", "n", "s", "e", ".", "t", "e", "x", "t">>

T_CREATED == <<"s", "e", "s", "s", "i", "o", "n", ".", "c", "r", "e", "a", "t", "e", "d">>

\* the frames the upstream service sends
UpMsgs == <<
    NotJson,
    JsonText(JNum(1)),
    JsonText(JObj([type |-> JStr(T_ITEM_DELTA), text_delta |-> JStr(<<"h", "e">>)])),
    JsonText(JObj([type |-> JStr(T_RESP_DONE), transcript |-> JStr(<<"h", "e", "j">>)])),
    JsonText(JObj([type |-> JStr(T_BOTH), text |-> JStr(<<>>),
                   transcript |-> JStr(<<"h", "e", "j">>)])),
    JsonText(JObj([type |-> JStr(T_PLAIN), text |-> JStr(<<"h", "i">>)])),
    JsonText(JObj([type |-> JStr(T_CREATED)])),
    JsonText(JObj([type |-> JStr(T_RESP_DONE),
                   audio |-> JObj([transcript |-> JStr(<<"x">>),
                                   start_time_s |-> JNum(1), end_time_s |-> JNum(2)])])) >>

(***************************************************************************)
(* realtime.py OpenAIRealtimeSession.  self._ws is "None" or "conn"; up is *)
(* the state of the connection self._ws names: "none" (never opened),      *)
(* "open", "peer_closed" (the service closed it) or "closed" (close() was  *)
(* called on it).  A send on a connection that is not open raises.         *)
(***************************************************************************)
\* the message connect() sends first
session_update ==
    [type |-> "session.update",
     session |-> [input_audio_format |-> [format |-> "pcm16", sample_rate_hz |-> SAMPLE_RATE],
                  input_audio_transcription |-> [model |-> "gpt-4o-mini-transcribe",
                                                 language |-> "sv"],
                  turn_detection |-> [type |-> "server_vad",
                                      silence_duration_ms |-> server_vad_silence_ms],
                  modalities |-> <<"text">>]]

\* _send_json that writes the payload twice
send_json_twice(ws, up, obj) ==
    IF ws = "None" \/ up # "open" THEN [raised |-> TRUE, sent |-> <<>>]
    ELSE [raised |-> FALSE, sent |-> <<obj, obj>>]

\* _send_json(obj): the assert, then self._ws.send
send_json(ws, up, obj) ==
    IF ws = "None" \/ up # "open" THEN [raised |-> TRUE, sent |-> <<>>]
    ELSE [raised |-> FALSE, sent |-> <<obj>>]

\* send_audio_chunk that does not store end_s in self._audio_time_s
send_audio_chunk_stale(ws, up, t, raw) ==
    LET dur_s == FDiv(Len(raw), 2 * SAMPLE_RATE)
        r     == send_json(ws, up, [type  |-> "input_audio_buffer.append",
                                    audio |-> b64_audio_pcm16(raw)])
    IN  [raised |-> r.raised, sent |-> r.sent, audio_time_s |-> t,
         start_s |-> t, end_s |-> FAdd(t, dur_s)]

\* send_audio_chunk(raw_pcm16) on a session with clock t: what it raises or
\* returns, the clock it leaves and the message it sends
send_audio_chunk(ws, up, t, raw) ==
    IF ws = "None"
    THEN [raised |-> TRUE, sent |-> <<>>, audio_time_s |-> t, start_s |-> Zero, end_s |-> Zero]
    ELSE LET dur_s   == FDiv(Len(raw), 2 * SAMPLE_RATE)
             start_s == t
             end_s   == FAdd(start_s, dur_s)
             r       == send_json(ws, up, [type  |-> "input_audio_buffer.append",
                                           audio |-> b64_audio_pcm16(raw)])
         IN  [raised |-> r.raised, sent |-> r.sent, audio_time_s |-> end_s,
              start_s |-> start_s, end_s |-> end_s]

\* clear() that sends the message and leaves the clock
clear_keeps_clock(ws, up, t) ==
    LET r == send_json(ws, up, [type |-> "input_audio_buffer.clear"])
    IN  [raised |-> r.raised, sent |-> r.sent, audio_time_s |-> t]

\* clear(): the clock goes to 0.0, then the clear message is sent
clear(ws, up, t) ==
    LET r == send_json(ws, up, [type |-> "input_audio_buffer.clear"])
    IN  [raised |-> r.raised, sent |-> r.sent, audio_time_s |-> Zero]

\* close() that leaves self._ws as it is
close_keeps(ws) == [closes |-> FALSE, ws |-> ws]

\* close() without the test of self._ws
close_again(ws) == [closes |-> TRUE, ws |-> "None"]

\* close(): whether it calls close() on the connection; self._ws is None after
close(ws) == [closes |-> ws # "None", ws |-> "None"]

(***************************************************************************)
(* main.py pump_client_to_openai: what the pump does with a text frame.    *)
(* "reset" calls session.clear(); everything else, and every exception     *)
(* raised inside the try block, is passed over.                            *)
(***************************************************************************)
\* control_command that takes "flush" for a commit of the buffer and "reset"
flush_as_reset(txt) ==
    IF ~txt.json THEN "ignored"
    ELSE IF ~IsDict(txt.data) THEN "ignored"
    ELSE LET cmd == Get(txt.data, "type")
         IN  IF IsStr(cmd) /\ cmd.s \in {STR_FLUSH, STR_RESET} THEN "reset"
             ELSE "ignored"

\* lines 93-102
control_command(txt) ==
    IF ~txt.json THEN "ignored"
    ELSE IF ~IsDict(txt.data) THEN "ignored"
    ELSE LET cmd == Get(txt.data, "type")
         IN  IF IsStr(cmd) /\ cmd.s = STR_FLUSH THEN "flush"
             ELSE IF IsStr(cmd) /\ cmd.s = STR_RESET THEN "reset"
             ELSE "ignored"

\* the message with "final" for every event that is not partial
payload_by_partial(evt) ==
    [type  |-> IF evt.partial THEN "partial" ELSE "final",
     text  |-> evt.text,
     ts    |-> [start_s |-> evt.start_s, end_s |-> evt.end_s],
     event |-> evt.event_type]

\* main.py lines 111-116: the message pump_openai_to_client sends for evt
payload(evt) ==
    [type  |-> IF evt.partial /\ ~evt.final THEN "partial"
               ELSE IF evt.final THEN "final" ELSE "partial",
     text  |-> evt.text,
     ts    |-> [start_s |-> evt.start_s, end_s |-> evt.end_s],
     event |-> evt.event_type]

(***************************************************************************)
(* State.  One handler ws_endpoint runs per client connection s; the four  *)
(* RingLogs are module globals of main.py, shared by all handlers.         *)
(***************************************************************************)
VARIABLES
    lim,            \* the bounds of this run: which connections arrive, how many frames
    mpc,            \* mpc[s]: where handler s is (the await it is at)
    client,         \* client[s]: the client socket as ws.receive sees it
    ws_closed,      \* ws_closed[s]: the handler has called ws.close()
    created,        \* created[s]: OpenAIRealtimeSession objects handler s has built
    self_ws,        \* self_ws[s]: session._ws
    audio_time_s,   \* audio_time_s[s]: session._audio_time_s
    upstream,       \* upstream[s]: the upstream connection of session s
    conn_closes,    \* conn_closes[s]: calls of close() on that connection
    close_calls,    \* close_calls[s]: calls of session.close()
    pumpA,          \* pumpA[s]: task pump_client_to_openai
    pumpB,          \* pumpB[s]: task pump_openai_to_client
    gather_exc,     \* gather_exc[s]: the exception asyncio.gather holds for the handler
    exc,            \* exc[s]: the exception the handler caught
    err_attempts,   \* err_attempts[s]: the calls of ws.send_text with the error frame
    clientRecv,     \* clientRecv[s]: the frames ws.receive() returned, in order
    upstreamSent,   \* upstreamSent[s]: the messages sent on the upstream connection
    upstreamRecv,   \* upstreamRecv[s]: the frames self._ws.recv() returned
    clientSent,     \* clientSent[s]: the text frames sent to the client
    clock_log,      \* clock_log[s]: the send_audio_chunk and clear calls, with results
    front_chunks, openai_chunks, openai_text, front_text,   \* the RingLogs
    c_in,           \* the message given to the classifier (ClassifySpec)
    c_out,          \* what the classifier made of it
    ring_cap,       \* the capacity of the RingLog of RingSpec
    ring,           \* its deque
    ring_hist       \* every item added to it, in order

hvars == <<mpc, client, ws_closed, created, self_ws, upstream, conn_closes, close_calls,
           gather_exc, exc, err_attempts>>

pvars == <<pumpA, pumpB, audio_time_s, clientRecv, upstreamSent, upstreamRecv, clientSent,
           clock_log>>

logs == <<front_chunks, openai_chunks, openai_text, front_text>>

cvars == <<c_in, c_out, ring_cap, ring, ring_hist>>

vars == <<lim, hvars, pvars, logs, cvars>>

\* a run takes many client frames and few upstream frames, or the reverse
Limits == {[sessions |-> {1}, frames |-> MaxFrames, events |-> 0, wide |-> TRUE],
           [sessions |-> {1}, frames |-> 1, events |-> MaxEvents, wide |-> TRUE],
           [sessions |-> Sessions, frames |-> 0, events |-> 0, wide |-> TRUE]}

\* the frames a run draws from: all of them, or one binary frame, "reset"
\* and two upstream frames (one that raises, one with text)
RawChoices == IF lim.wide THEN 1..Len(Raws) ELSE {2}

TextChoices == IF lim.wide THEN 1..Len(ClientTexts) ELSE {1}

MsgChoices == IF lim.wide THEN 1..Len(UpMsgs) ELSE {2, 3}

RelayInit ==
    /\ mpc = [s \in Sessions |-> "idle"]
    /\ client = [s \in Sessions |-> "new"]
    /\ ws_closed = [s \in Sessions |-> FALSE]
    /\ created = [s \in Sessions |-> 0]
    /\ self_ws = [s \in Sessions |-> "None"]
    /\ audio_time_s = [s \in Sessions |-> Zero]
    /\ upstream = [s \in Sessions |-> "none"]
    /\ conn_closes = [s \in Sessions |-> 0]
    /\ close_calls = [s \in Sessions |-> 0]
    /\ pumpA = [s \in Sessions |-> "off"]
    /\ pumpB = [s \in Sessions |-> "off"]
    /\ gather_exc = [s \in Sessions |-> "none"]
    /\ exc = [s \in Sessions |-> "none"]
    /\ err_attempts = [s \in Sessions |-> 0]
    /\ clientRecv = [s \in Sessions |-> <<>>]
    /\ upstreamSent = [s \in Sessions |-> <<>>]
    /\ upstreamRecv = [s \in Sessions |-> <<>>]
    /\ clientSent = [s \in Sessions |-> <<>>]
    /\ clock_log = [s \in Sessions |-> <<>>]
    /\ front_chunks = <<>>
    /\ openai_chunks = <<>>
    /\ openai_text = <<>>
    /\ front_text = <<>>

\* no RingLog under test
RingIdle == ring_cap = 0 /\ ring = <<>> /\ ring_hist = <<>>

Init ==
    /\ lim \in Limits
    /\ RelayInit
    /\ c_in = NotJson
    /\ c_out = [out |-> "none"]
    /\ RingIdle

(***************************************************************************)
(* The sockets.  ws.send_text succeeds on a client socket that is open and *)
(* raises otherwise.  ws.receive() returns the next frame of an open       *)
(* socket; once the peer is gone or the handler closed the socket it       *)
(* returns a disconnect message (neither "bytes" nor "text"), and it       *)
(* raises RuntimeError when called again after that.                       *)
(***************************************************************************)
ClientUp(s) == client[s] = "open" /\ ~ws_closed[s]

\* the client goes away
ClientDisconnect(s) ==
    /\ ClientUp(s)
    /\ client' = [client EXCEPT ![s] = "peer_gone"]
    /\ UNCHANGED <<lim, err_attempts, mpc, ws_closed, created, self_ws, upstream, conn_closes,
                   close_calls, gather_exc, exc, pvars, logs, cvars>>

\* the upstream service closes the connection
UpstreamClose(s) ==
    /\ upstream[s] = "open"
    /\ upstream' = [upstream EXCEPT ![s] = "peer_closed"]
    /\ UNCHANGED <<lim, err_attempts, mpc, client, ws_closed, created, self_ws, conn_closes,
                   close_calls, gather_exc, exc, pvars, logs, cvars>>

\* the exceptions the handler tells apart
ExcKinds == {"WebSocketDisconnect", "Exception"}

\* asyncio.gather hands the handler the first exception a pump raises
Surfaced(s, kind) == IF gather_exc[s] = "none" THEN kind ELSE gather_exc[s]

(***************************************************************************)
(* main.py ws_endpoint, one action per await.                              *)
(***************************************************************************)
\* line 69: await ws.accept()
Accept(s) ==
    /\ mpc[s] = "idle"
    /\ s \in lim.sessions
    /\ mpc' = [mpc EXCEPT ![s] = "accepted"]
    /\ client' = [client EXCEPT ![s] = "open"]
    /\ UNCHANGED <<lim, err_attempts, ws_closed, created, self_ws, upstream, conn_closes, close_calls,
                   gather_exc, exc, pvars, logs, cvars>>

\* a handler that builds a second session when the first connect fails
Connect_retry(s, ok) ==
    /\ mpc[s] = "accepted"
    /\ created' = [created EXCEPT ![s] = @ + 1]
    /\ IF ok
       THEN /\ self_ws' = [self_ws EXCEPT ![s] = "conn"]
            /\ upstream' = [upstream EXCEPT ![s] = "open"]
            /\ mpc' = [mpc EXCEPT ![s] = "handshake"]
            /\ exc' = exc
       ELSE /\ exc' = [exc EXCEPT ![s] = "Exception"]
            /\ mpc' = [mpc EXCEPT ![s] = IF created[s] = 0 THEN "accepted" ELSE "error_send"]
            /\ UNCHANGED <<self_ws, upstream>>
    /\ UNCHANGED <<lim, err_attempts, client, ws_closed, conn_closes, close_calls,
                   gather_exc, pvars, logs, cvars>>

\* lines 73-79 and realtime.py line 61: the session is built and
\* websockets.connect returns the connection (ok) or raises
Connect(s, ok) ==
    /\ mpc[s] = "accepted"
    /\ created' = [created EXCEPT ![s] = @ + 1]
    /\ IF ok
       THEN /\ self_ws' = [self_ws EXCEPT ![s] = "conn"]
            /\ upstream' = [upstream EXCEPT ![s] = "open"]
            /\ mpc' = [mpc EXCEPT ![s] = "handshake"]
            /\ exc' = exc
       ELSE /\ exc' = [exc EXCEPT ![s] = "Exception"]
            /\ mpc' = [mpc EXCEPT ![s] = "error_send"]
            /\ UNCHANGED <<self_ws, upstream>>
    /\ UNCHANGED <<lim, err_attempts, client, ws_closed, conn_closes, close_calls, gather_exc, pvars,
                   logs, cvars>>

\* connect() without the send of session.update
Handshake_unsent(s) ==
    /\ mpc[s] = "handshake"
    /\ mpc' = [mpc EXCEPT ![s] = "gather"]
    /\ pumpA' = [pumpA EXCEPT ![s] = "run"]
    /\ pumpB' = [pumpB EXCEPT ![s] = "run"]
    /\ UNCHANGED <<lim, err_attempts, client, ws_closed, created, self_ws, upstream,
                   conn_closes, close_calls, gather_exc, exc, audio_time_s, clientRecv,
                   upstreamSent, upstreamRecv, clientSent, clock_log, logs, cvars>>

\* realtime.py line 74: connect() sends session.update; then main.py line 122
\* starts the two pumps
Handshake(s) ==
    /\ mpc[s] = "handshake"
    /\ LET r == send_json(self_ws[s], upstream[s], session_update)
       IN  IF r.raised
           THEN /\ exc' = [exc EXCEPT ![s] = "Exception"]
                /\ mpc' = [mpc EXCEPT ![s] = "error_send"]
                /\ UNCHANGED <<upstreamSent, pumpA, pumpB>>
           ELSE /\ upstreamSent' = [upstreamSent EXCEPT ![s] = @ \o r.sent]
                /\ mpc' = [mpc EXCEPT ![s] = "gather"]
                /\ pumpA' = [pumpA EXCEPT ![s] = "run"]
                /\ pumpB' = [pumpB EXCEPT ![s] = "run"]
                /\ exc' = exc
    /\ UNCHANGED <<lim, err_attempts, client, ws_closed, created, self_ws, upstream, conn_closes,
                   close_calls, gather_exc, audio_time_s, clientRecv, upstreamRecv,
                   clientSent, clock_log, logs, cvars>>

\* a handler with one except clause: every exception gets the error frame
GatherRaise_one_clause(s) ==
    /\ mpc[s] = "gather"
    /\ gather_exc[s] # "none"
    /\ exc' = [exc EXCEPT ![s] = gather_exc[s]]
    /\ mpc' = [mpc EXCEPT ![s] = "error_send"]
    /\ UNCHANGED <<lim, err_attempts, client, ws_closed, created, self_ws, upstream,
                   conn_closes, close_calls, gather_exc, pvars, logs, cvars>>

\* line 122: asyncio.gather raises the first exception of a pump in the
\* handler; lines 124-127 catch it.  gather does not cancel the other pump.
GatherRaise(s) ==
    /\ mpc[s] = "gather"
    /\ gather_exc[s] # "none"
    /\ exc' = [exc EXCEPT ![s] = gather_exc[s]]
    /\ mpc' = [mpc EXCEPT ![s] =
                  IF gather_exc[s] = "WebSocketDisconnect" THEN "finally" ELSE "error_send"]
    /\ UNCHANGED <<lim, err_attempts, client, ws_closed, created, self_ws, upstream, conn_closes,
                   close_calls, gather_exc, pvars, logs, cvars>>

\* the frame of line 129
error_frame(e) == JsonText([type |-> "error", error |-> e])

\* lines 128-131: the error frame, a failure to send it passed over
ErrorSend(s) ==
    /\ mpc[s] = "error_send"
    /\ clientSent' = [clientSent EXCEPT ![s] =
                         IF ClientUp(s) THEN Append(@, error_frame(exc[s])) ELSE @]
    /\ err_attempts' = [err_attempts EXCEPT ![s] = @ + 1]
    /\ mpc' = [mpc EXCEPT ![s] = "finally"]
    /\ UNCHANGED <<lim, client, ws_closed, created, self_ws, upstream, conn_closes,
                   close_calls, gather_exc, exc, pumpA, pumpB, audio_time_s, clientRecv,
                   upstreamSent, upstreamRecv, clock_log, logs, cvars>>

\* lines 133-134 and realtime.py lines 77-79: session.close() is called and,
\* if self._ws is set, awaits self._ws.close()
FinallyClose(s) ==
    /\ mpc[s] = "finally"
    /\ IF created[s] > 0
       THEN /\ close_calls' = [close_calls EXCEPT ![s] = @ + 1]
            /\ IF close(self_ws[s]).closes
               THEN /\ conn_closes' = [conn_closes EXCEPT ![s] = @ + 1]
                    /\ upstream' = [upstream EXCEPT ![s] = "closed"]
                    /\ mpc' = [mpc EXCEPT ![s] = "closing"]
               ELSE /\ mpc' = [mpc EXCEPT ![s] = "ws_close"]
                    /\ UNCHANGED <<conn_closes, upstream>>
       ELSE /\ mpc' = [mpc EXCEPT ![s] = "ws_close"]
            /\ UNCHANGED <<close_calls, conn_closes, upstream>>
    /\ UNCHANGED <<lim, err_attempts, client, ws_closed, created, self_ws, gather_exc, exc, pvars, logs,
                   cvars>>

\* realtime.py line 82: self._ws = None once self._ws.close() is over
CloseDone(s) ==
    /\ mpc[s] = "closing"
    /\ self_ws' = [self_ws EXCEPT ![s] = close(self_ws[s]).ws]
    /\ mpc' = [mpc EXCEPT ![s] = "ws_close"]
    /\ UNCHANGED <<lim, err_attempts, client, ws_closed, created, upstream, conn_closes, close_calls,
                   gather_exc, exc, pvars, logs, cvars>>

\* lines 135-138: ws.close(), its errors passed over
WsClose(s) ==
    /\ mpc[s] = "ws_close"
    /\ ws_closed' = [ws_closed EXCEPT ![s] = TRUE]
    /\ mpc' = [mpc EXCEPT ![s] = "done"]
    /\ UNCHANGED <<lim, err_attempts, client, created, self_ws, upstream, conn_closes, close_calls,
                   gather_exc, exc, pvars, logs, cvars>>

(***************************************************************************)
(* main.py pump_client_to_openai, one action per frame: from the return of *)
(* ws.receive() to the next await of it.                                   *)
(***************************************************************************)
\* the entry with the count of samples in place of the count of bytes
chunk_entry_samples(raw, r) ==
    [bytes |-> Len(raw) \div 2, start_s |-> r.start_s, end_s |-> r.end_s]

\* the entry of lines 89-90, without its field "t" (the wall clock now_s(),
\* which nothing reads back)
chunk_entry(raw, r) == [bytes |-> Len(raw), start_s |-> r.start_s, end_s |-> r.end_s]

\* lines 85-90: a binary frame
A_Binary(s, raw) ==
    /\ pumpA[s] = "run"
    /\ ClientUp(s)
    /\ Len(clientRecv[s]) < lim.frames
    /\ clientRecv' = [clientRecv EXCEPT ![s] = Append(@, [kind |-> "bytes", bytes |-> raw])]
    /\ LET r == send_audio_chunk(self_ws[s], upstream[s], audio_time_s[s], raw)
       IN  /\ audio_time_s' = [audio_time_s EXCEPT ![s] = r.audio_time_s]
           /\ upstreamSent' = [upstreamSent EXCEPT ![s] = @ \o r.sent]
           /\ clock_log' = [clock_log EXCEPT ![s] =
                  Append(@, [op |-> "chunk", bytes |-> Len(raw), raised |-> r.raised,
                             start_s |-> r.start_s, end_s |-> r.end_s])]
           /\ IF r.raised
              THEN /\ pumpA' = [pumpA EXCEPT ![s] = "raised"]
                   /\ gather_exc' = [gather_exc EXCEPT ![s] = Surfaced(s, "Exception")]
                   /\ UNCHANGED <<front_chunks, openai_chunks>>
              ELSE /\ front_chunks' = RingLog_add(front_chunks, RING_SIZE, chunk_entry(raw, r))
                   /\ openai_chunks' = RingLog_add(openai_chunks, RING_SIZE, chunk_entry(raw, r))
                   /\ UNCHANGED <<pumpA, gather_exc>>
    /\ UNCHANGED <<lim, err_attempts, mpc, client, ws_closed, created, self_ws, upstream, conn_closes,
                   close_calls, exc, pumpB, upstreamRecv, clientSent, openai_text,
                   front_text, cvars>>

\* a text frame, with one clock for all sessions: "reset" sets every clock
A_Text_one_clock(s, txt) ==
    /\ pumpA[s] = "run"
    /\ ClientUp(s)
    /\ Len(clientRecv[s]) < lim.frames
    /\ clientRecv' = [clientRecv EXCEPT ![s] = Append(@, [kind |-> "text", text |-> txt])]
    /\ IF control_command(txt) = "reset"
       THEN LET r == clear(self_ws[s], upstream[s], audio_time_s[s])
            IN  /\ audio_time_s' = [t \in Sessions |-> r.audio_time_s]
                /\ upstreamSent' = [upstreamSent EXCEPT ![s] = @ \o r.sent]
                /\ clock_log' = [clock_log EXCEPT ![s] =
                       Append(@, [op |-> "clear", raised |-> r.raised])]
       ELSE UNCHANGED <<audio_time_s, upstreamSent, clock_log>>
    /\ UNCHANGED <<lim, hvars, pumpA, pumpB, upstreamRecv, clientSent, logs, cvars>>

\* lines 91-104: a text frame
A_Text(s, txt) ==
    /\ pumpA[s] = "run"
    /\ ClientUp(s)
    /\ Len(clientRecv[s]) < lim.frames
    /\ clientRecv' = [clientRecv EXCEPT ![s] = Append(@, [kind |-> "text", text |-> txt])]
    /\ IF control_command(txt) = "reset"
       THEN LET r == clear(self_ws[s], upstream[s], audio_time_s[s])
            IN  /\ audio_time_s' = [audio_time_s EXCEPT ![s] = r.audio_time_s]
                /\ upstreamSent' = [upstreamSent EXCEPT ![s] = @ \o r.sent]
                /\ clock_log' = [clock_log EXCEPT ![s] =
                       Append(@, [op |-> "clear", raised |-> r.raised])]
       ELSE UNCHANGED <<audio_time_s, upstreamSent, clock_log>>
    /\ UNCHANGED <<lim, hvars, pumpA, pumpB, upstreamRecv, clientSent, logs, cvars>>

\* line 83: ws.receive() returns the disconnect message; neither branch of
\* the loop takes it
A_Disconnected(s) ==
    /\ pumpA[s] = "run"
    /\ client[s] = "peer_gone" \/ (client[s] = "open" /\ ws_closed[s])
    /\ client' = [client EXCEPT ![s] = "disconnected"]
    /\ UNCHANGED <<lim, err_attempts, mpc, ws_closed, created, self_ws, upstream, conn_closes,
                   close_calls, gather_exc, exc, pvars, logs, cvars>>

\* line 83: ws.receive() raises after the disconnect message
A_ReceiveRaises(s) ==
    /\ pumpA[s] = "run"
    /\ client[s] = "disconnected"
    /\ pumpA' = [pumpA EXCEPT ![s] = "raised"]
    /\ gather_exc' = [gather_exc EXCEPT ![s] = Surfaced(s, "Exception")]
    /\ UNCHANGED <<lim, err_attempts, mpc, client, ws_closed, created, self_ws, upstream, conn_closes,
                   close_calls, exc, pumpB, audio_time_s, clientRecv, upstreamSent,
                   upstreamRecv, clientSent, clock_log, logs, cvars>>

(***************************************************************************)
(* main.py pump_openai_to_client over realtime.py events(), one action per *)
(* upstream frame: from the return of self._ws.recv() to the next await of *)
(* it.                                                                     *)
(***************************************************************************)
\* lines 107-120 for a frame msg; when ws.send_text raises, it raises kind.
\* The text log entries are the payload without the field "t" (now_s()).
B_Event(s, msg, kind) ==
    /\ pumpB[s] = "run"
    /\ upstream[s] = "open"
    /\ Len(upstreamRecv[s]) < lim.events
    /\ upstreamRecv' = [upstreamRecv EXCEPT ![s] = Append(@, msg)]
    /\ LET e == events_step(msg)
       IN  IF e.out = "raise"
           THEN /\ pumpB' = [pumpB EXCEPT ![s] = "raised"]
                /\ gather_exc' = [gather_exc EXCEPT ![s] = Surfaced(s, "Exception")]
                /\ UNCHANGED <<clientSent, openai_text, front_text>>
           ELSE IF e.out = "skip" \/ e.evt.text = <<>>
           THEN UNCHANGED <<pumpB, gather_exc, clientSent, openai_text, front_text>>
           ELSE /\ openai_text' = RingLog_add(openai_text, RING_SIZE, payload(e.evt))
                /\ IF ClientUp(s)
                   THEN /\ clientSent' = [clientSent EXCEPT ![s] =
                                             Append(@, JsonText(payload(e.evt)))]
                        /\ front_text' = RingLog_add(front_text, RING_SIZE, payload(e.evt))
                        /\ kind = "Exception"
                        /\ UNCHANGED <<pumpB, gather_exc>>
                   ELSE /\ pumpB' = [pumpB EXCEPT ![s] = "raised"]
                        /\ gather_exc' = [gather_exc EXCEPT ![s] = Surfaced(s, kind)]
                        /\ UNCHANGED <<clientSent, front_text>>
    /\ UNCHANGED <<lim, err_attempts, mpc, client, ws_closed, created, self_ws, upstream, conn_closes,
                   close_calls, exc, pumpA, audio_time_s, clientRecv, upstreamSent,
                   clock_log, front_chunks, openai_chunks, cvars>>

\* realtime.py lines 120-122: recv() raises ConnectionClosed, events() ends
\* and the pump returns
B_Closed(s) ==
    /\ pumpB[s] = "run"
    /\ upstream[s] \in {"peer_closed", "closed"}
    /\ pumpB' = [pumpB EXCEPT ![s] = "done"]
    /\ UNCHANGED <<lim, hvars, pumpA, audio_time_s, clientRecv, upstreamSent, upstreamRecv,
                   clientSent, clock_log, logs, cvars>>

Next ==
    \E s \in Sessions :
        \/ Accept(s)
        \/ \E ok \in BOOLEAN : Connect(s, ok)
        \/ Handshake(s)
        \/ GatherRaise(s)
        \/ ErrorSend(s)
        \/ FinallyClose(s)
        \/ CloseDone(s)
        \/ WsClose(s)
        \/ \E i \in RawChoices : A_Binary(s, Raws[i])
        \/ \E i \in TextChoices : A_Text(s, ClientTexts[i])
        \/ A_Disconnected(s)
        \/ A_ReceiveRaises(s)
        \/ \E i \in MsgChoices, kind \in ExcKinds : B_Event(s, UpMsgs[i], kind)
        \/ B_Closed(s)
        \/ ClientDisconnect(s)
        \/ UpstreamClose(s)

Spec == Init /\ [][Next]_vars

(***************************************************************************)
(* The same program under the scheduling of the event loop: a coroutine    *)
(* whose await has completed is resumed.  Nothing obliges the client or    *)
(* the upstream service to send a frame or to go away.                     *)
(***************************************************************************)
SmallLimits == {[sessions |-> {1}, frames |-> 1, events |-> 1, wide |-> TRUE]}

SmallInit ==
    /\ lim \in SmallLimits
    /\ RelayInit
    /\ c_in = NotJson
    /\ c_out = [out |-> "none"]
    /\ RingIdle

Scheduled(s) ==
    /\ WF_vars(Accept(s))
    /\ WF_vars(\E ok \in BOOLEAN : Connect(s, ok))
    /\ WF_vars(Handshake(s))
    /\ WF_vars(GatherRaise(s))
    /\ WF_vars(ErrorSend(s))
    /\ WF_vars(FinallyClose(s))
    /\ WF_vars(CloseDone(s))
    /\ WF_vars(WsClose(s))
    /\ WF_vars(A_Disconnected(s))
    /\ WF_vars(A_ReceiveRaises(s))
    /\ WF_vars(B_Closed(s))

FairSpec == SmallInit /\ [][Next]_vars /\ \A s \in Sessions : Scheduled(s)

(***************************************************************************)
(* A caller that keeps the session object after the handler has returned   *)
(* and calls close() on it again: realtime.py lines 76-82 run once more.   *)
(***************************************************************************)
SecondClose(s) ==
    /\ mpc[s] = "done"
    /\ close_calls[s] >= 1
    /\ close_calls[s] < 1 + MaxExtraClose
    /\ close_calls' = [close_calls EXCEPT ![s] = @ + 1]
    /\ conn_closes' = [conn_closes EXCEPT ![s] = IF close(self_ws[s]).closes THEN @ + 1 ELSE @]
    /\ upstream' = [upstream EXCEPT ![s] = IF close(self_ws[s]).closes THEN "closed" ELSE @]
    /\ self_ws' = [self_ws EXCEPT ![s] = close(self_ws[s]).ws]
    /\ UNCHANGED <<lim, err_attempts, mpc, client, ws_closed, created, gather_exc, exc, pvars, logs, cvars>>

CloseNext == Next \/ \E s \in Sessions : SecondClose(s)

CloseSpec == SmallInit /\ [][CloseNext]_vars

(***************************************************************************)
(* realtime.py events() on one frame, the type tag drawn from the          *)
(* concatenations of at most MaxSegs segments: the five markers, pieces of *)
(* markers and a plain word.                                               *)
(***************************************************************************)
MaxSegs == 2

Segments == <<DOT_DELTA, DOT_PARTIAL, DOT_DONE, DOT_COMPLETED, DOT_FINAL,
              <<".", "d", "e", "l">>, <<"t", "a">>, <<"d", "o", "n", "e">>, <<"x">> >>

RECURSIVE Tags(_)
Tags(n) ==
    IF n = 0 THEN {<<>>}
    ELSE Tags(n - 1) \cup {t \o Segments[i] : t \in Tags(n - 1), i \in 1..Len(Segments)}

ClassifyInit ==
    /\ lim \in SmallLimits
    /\ RelayInit
    /\ c_in \in {JsonText(JObj([type |-> JStr(tag), text |-> JStr(<<"h", "i">>)])) :
                    tag \in Tags(MaxSegs)}
    /\ c_out = [out |-> "none"]
    /\ RingIdle

Classify ==
    /\ c_out.out = "none"
    /\ c_out' = events_step(c_in)
    /\ UNCHANGED <<lim, hvars, pvars, logs, c_in, ring_cap, ring, ring_hist>>

ClassifySpec == ClassifyInit /\ [][Classify]_vars

(***************************************************************************)
(* realtime.py events() on one frame whose fields are drawn: each of the   *)
(* keys extract_text reads is absent (choice 0) or has one of the values   *)
(* listed for it.                                                          *)
(***************************************************************************)
ExtractKeys ==
    <<"text", "text_delta", "transcript", "transcript_delta", "audio", "transcription",
      "response">>

FieldChoices == <<
    <<JStr(<<>>), JStr(<<"t", "1">>), JNum(5)>>,
    <<JStr(<<>>), JStr(<<"t", "2">>)>>,
    <<JStr(<<>>), JStr(<<"t", "3">>)>>,
    <<JStr(<<>>), JStr(<<"t", "4">>)>>,
    <<JObj([transcript |-> JStr(<<"a", "5">>)]), JObj([transcript |-> JStr(<<>>)]),
      JObj([transcript |-> JNum(5)]), JStr(<<"a", "b", "c">>)>>,
    <<JStr(<<"t", "6">>)>>,
    <<JObj([output_text |-> JStr(<<"t", "7">>)])>> >>

FieldDraws ==
    {ch \in [1..Len(ExtractKeys) -> 0..4] :
        \A k \in 1..Len(ExtractKeys) : ch[k] <= Len(FieldChoices[k])}

KeyIndex(key) == CHOOSE k \in 1..Len(ExtractKeys) : ExtractKeys[k] = key

\* the frame with type response.audio_transcript.done and the fields ch draws
DrawnMsg(ch) ==
    JsonText(JObj(
        [key \in {"type"} \cup {ExtractKeys[k] : k \in {j \in 1..Len(ExtractKeys) : ch[j] > 0}}
            |-> IF key = "type" THEN JStr(T_RESP_DONE)
                ELSE FieldChoices[KeyIndex(key)][ch[KeyIndex(key)]]]))

ExtractInit ==
    /\ lim \in SmallLimits
    /\ RelayInit
    /\ \E ch \in FieldDraws : c_in = DrawnMsg(ch)
    /\ c_out = [out |-> "none"]
    /\ RingIdle

ExtractSpec == ExtractInit /\ [][Classify]_vars

(***************************************************************************)
(* Two client connections served side by side, each with its own handler,  *)
(* session and pumps, over the four shared logs.                           *)
(***************************************************************************)
PairLimits == {[sessions |-> {1, 2}, frames |-> 1, events |-> 1, wide |-> FALSE]}

PairInit ==
    /\ lim \in PairLimits
    /\ RelayInit
    /\ c_in = NotJson
    /\ c_out = [out |-> "none"]
    /\ RingIdle

PairSpec == PairInit /\ [][Next]_vars

(***************************************************************************)
(* buffers.py RingLog on its own: a log of capacity ring_cap and a         *)
(* sequence of add calls.                                                  *)
(***************************************************************************)
MaxCap == 2

MaxAdds == 4

NumItems == 3

RingInit ==
    /\ lim \in SmallLimits
    /\ RelayInit
    /\ c_in = NotJson
    /\ c_out = [out |-> "none"]
    /\ ring_cap \in 0..MaxCap
    /\ ring = <<>>
    /\ ring_hist = <<>>

\* RingLog(ring_cap).add(item)
RingAdd(item) ==
    /\ Len(ring_hist) < MaxAdds
    /\ ring' = RingLog_add(ring, ring_cap, item)
    /\ ring_hist' = Append(ring_hist, item)
    /\ UNCHANGED <<lim, hvars, pvars, logs, c_in, c_out, ring_cap>>

RingNext == \E item \in 1..NumItems : RingAdd(item)

RingSpec == RingInit /\ [][RingNext]_vars

(***************************************************************************)
(* Claims                                                                  *)
(***************************************************************************)
PumpEnded(s) == pumpA[s] = "raised" \/ pumpB[s] \in {"done", "raised"}

\* C1: once one of the two pumps of a session has ended, normally or with an
\* error, the other pump reads no further frame (from the client or from the
\* upstream) and sends no further message to the upstream or to the client;
\* the only frame the client may still get is the handler's error frame.
C1_SiblingCancelled ==
    [][\A s \in Sessions :
          PumpEnded(s) =>
              /\ clientRecv'[s] = clientRecv[s]
              /\ upstreamRecv'[s] = upstreamRecv[s]
              /\ upstreamSent'[s] = upstreamSent[s]
              /\ clientSent'[s] = clientSent[s] \/ mpc[s] = "error_send"]_vars

\* C2: if the upstream connection closes while the session is active (both
\* pumps started, handler waiting in gather), then the session reaches CLOSED
\* (close() performed and the client connection closed) unless the client
\* sends a further frame or disconnects first: a client that stays connected
\* and silent, though it could send, does not keep the session from closing.
C2_UpstreamCloseLeadsToClosed ==
    \A s \in Sessions : \A n \in 0..(MaxFrames - 1) :
        (/\ mpc[s] = "gather"
         /\ upstream[s] = "peer_closed"
         /\ client[s] = "open"
         /\ Len(clientRecv[s]) = n
         /\ n < lim.frames)
            ~> \/ mpc[s] = "done" /\ close_calls[s] > 0 /\ ws_closed[s]
               \/ Len(clientRecv[s]) > n
               \/ client[s] # "open"

\* C3: every client connection gets exactly one session object, built only
\* after the connection is accepted (and built as soon as the handler is past
\* the construction); when the client connection is closed, close() of that
\* session has been called and has finished, in every execution.
C3_OneSessionPerConnection ==
    \A s \in Sessions :
        /\ created[s] <= 1
        /\ created[s] = 1 <=> mpc[s] \notin {"idle", "accepted"}
        /\ created[s] = 1 => client[s] # "new"
        /\ ws_closed[s] => close_calls[s] >= 1 /\ self_ws[s] = "None"

\* two connections served to the end, each with its own session, one of them
\* after a failure
C3_Witness ==
    /\ \A s \in Sessions : mpc[s] = "done" /\ created[s] = 1 /\ ws_closed[s]
    /\ \E s \in Sessions : exc[s] # "none"

\* C4: close() is idempotent: the upstream connection of a session is closed
\* at most once, not at all when the session never connected, exactly once
\* when the handler is through its teardown after a connect (a client that
\* dropped mid-session included), and a close() called again changes nothing
\* but the count of calls.
C4_CloseIdempotent ==
    /\ [](\A s \in Sessions :
            /\ conn_closes[s] <= 1
            /\ upstream[s] = "none" => conn_closes[s] = 0
            /\ (mpc[s] \in {"ws_close", "done"} /\ upstream[s] # "none") => conn_closes[s] = 1)
    /\ [][\A s \in Sessions :
            close_calls'[s] > close_calls[s] /\ close_calls[s] >= 1 =>
                /\ conn_closes'[s] = conn_closes[s]
                /\ self_ws'[s] = self_ws[s]
                /\ upstream'[s] = upstream[s]]_vars

\* the client dropped mid-session, the teardown closed the upstream
\* connection, and close() was called once more
C4_Witness ==
    \E s \in Sessions :
        /\ client[s] = "disconnected"
        /\ pumpA[s] = "raised"
        /\ close_calls[s] = 2
        /\ conn_closes[s] = 1

\* the clock before the i-th operation of the log L of a session
CursorBefore(L, i) ==
    IF i = 1 \/ L[i - 1].op = "clear" THEN Zero ELSE L[i - 1].end_s

\* the duration (b/2)/r of a chunk of b bytes, as the float the division gives
Duration(b) == FDiv(b, 2 * SAMPLE_RATE)

Returned(L) == {i \in 1..Len(L) : L[i].op = "chunk" /\ ~L[i].raised}

\* C5 as the specification states it: of every interval returned,
\* endS - startS equals (bi/2)/r, the subtraction done on the floats returned.
C5_ExactDuration ==
    \A s \in Sessions : \A i \in Returned(clock_log[s]) :
        FSub(clock_log[s][i].end_s, clock_log[s][i].start_s) = Duration(clock_log[s][i].bytes)

\* C5, amended: of every interval returned, startS is the clock left by the
\* operation before (0.0 at the start and after a clear, else the endS of
\* the chunk before, which is the float sum, left to right, of the durations
\* since the last clear), endS is the float sum startS + (bi/2)/r, and
\* startS <= endS, with equality for a chunk of no bytes.
C5_ClockIntervals ==
    \A s \in Sessions : \A i \in Returned(clock_log[s]) :
        LET e == clock_log[s][i]
        IN  /\ e.start_s = CursorBefore(clock_log[s], i)
            /\ e.end_s = FAdd(e.start_s, Duration(e.bytes))
            /\ FLe(e.start_s, e.end_s)
            /\ e.bytes = 0 => e.end_s = e.start_s
            /\ e.bytes > 0 => e.end_s # e.start_s

\* two chunks with bytes and a chunk with none, all three returned
C5_Witness ==
    \E s \in Sessions :
        /\ Len(clock_log[s]) = 3
        /\ Returned(clock_log[s]) = {1, 2, 3}
        /\ clock_log[s][1].bytes > 0
        /\ clock_log[s][2].bytes > clock_log[s][1].bytes
        /\ clock_log[s][3].bytes = 0

IsReset(f) == f.kind = "text" /\ control_command(f.text) = "reset"

Count(seq, P(_)) == Cardinality({i \in 1..Len(seq) : P(seq[i])})

IsClearMsg(m) == m.type = "input_audio_buffer.clear"

KeepLast(seq, n) == IF Len(seq) > n THEN SubSeq(seq, Len(seq) - n + 1, Len(seq)) ELSE seq

AppendMsg(raw) == [type |-> "input_audio_buffer.append", audio |-> b64_audio_pcm16(raw)]

\* this step, the client->upstream pump of s took a frame
TookFrame(s) == Len(clientRecv'[s]) = Len(clientRecv[s]) + 1

\* C7 as the specification states it: every binary frame the pump takes
\* sends one append message and adds one entry, with the frame's byte length
\* and its (startS, endS), to each chunk log; a text frame adds none.
C7_OneAppendPerBinary ==
    [][\A s \in Sessions : TookFrame(s) =>
          LET f == clientRecv'[s][Len(clientRecv'[s])]
              e == [bytes |-> Len(f.bytes), start_s |-> audio_time_s[s],
                    end_s |-> audio_time_s'[s]]
          IN  IF f.kind = "bytes"
              THEN /\ upstreamSent'[s] = Append(upstreamSent[s], AppendMsg(f.bytes))
                   /\ front_chunks' = KeepLast(Append(front_chunks, e), RING_SIZE)
                   /\ openai_chunks' = KeepLast(Append(openai_chunks, e), RING_SIZE)
              ELSE UNCHANGED <<front_chunks, openai_chunks>>]_vars

\* C7, amended: a binary frame taken while the upstream connection is open
\* sends one append message and adds one entry, with the frame's byte length
\* and its (startS, endS), to each chunk log; one taken while it is not open
\* sends nothing, adds no entry and ends the pump with the error; a text
\* frame adds no entry.
C7_AppendWhenSent ==
    [][\A s \in Sessions : TookFrame(s) =>
          LET f == clientRecv'[s][Len(clientRecv'[s])]
              e == [bytes |-> Len(f.bytes), start_s |-> audio_time_s[s],
                    end_s |-> audio_time_s'[s]]
          IN  IF f.kind = "bytes" /\ self_ws[s] = "conn" /\ upstream[s] = "open"
              THEN /\ upstreamSent'[s] = Append(upstreamSent[s], AppendMsg(f.bytes))
                   /\ front_chunks' = KeepLast(Append(front_chunks, e), RING_SIZE)
                   /\ openai_chunks' = KeepLast(Append(openai_chunks, e), RING_SIZE)
                   /\ pumpA'[s] = "run"
              ELSE IF f.kind = "bytes"
              THEN /\ UNCHANGED <<upstreamSent, front_chunks, openai_chunks>>
                   /\ pumpA'[s] = "raised"
              ELSE UNCHANGED <<front_chunks, openai_chunks>>]_vars

IsAppendMsg(m) == m.type = "input_audio_buffer.append"

IsBytes(f) == f.kind = "bytes"

\* two binary frames with bytes and a text frame taken; both chunk logs hold
\* the two entries, the second starting where the first ended
C7_Witness ==
    \E s \in Sessions :
        /\ Len(clientRecv[s]) = 3
        /\ Count(clientRecv[s], IsBytes) = 2
        /\ Count(upstreamSent[s], IsAppendMsg) = 2
        /\ Len(front_chunks) = 2
        /\ openai_chunks = front_chunks
        /\ front_chunks[1].bytes > 0
        /\ front_chunks[2].start_s = front_chunks[1].end_s
        /\ front_chunks[2].end_s # front_chunks[2].start_s

\* the append messages sent upstream, and those the frames taken call for
Appends(s) == SelectSeq(upstreamSent[s], IsAppendMsg)

AppendsDue(s) ==
    LET F == SelectSeq(clientRecv[s], IsBytes) IN [i \in 1..Len(F) |-> AppendMsg(F[i].bytes)]

IsTranscript(m) == m.data.type \in {"partial", "final"}

HasText(msg) == events_step(msg).out = "yield" /\ events_step(msg).evt.text # <<>>

\* the partial/final frames sent to the client
Forwarded(s) == SelectSeq(clientSent[s], IsTranscript)

\* what events() makes of each frame taken from the upstream
Classified(s) == [i \in 1..Len(upstreamRecv[s]) |-> events_step(upstreamRecv[s][i])]

WithText(e) == e.out = "yield" /\ e.evt.text # <<>>

\* the frames the events E call for
FramesOf(E) == [i \in 1..Len(E) |-> JsonText(payload(E[i].evt))]

\* sent is due, or due without its last entry
AllButLast(sent, due) ==
    /\ Len(sent) \in {Len(due), Len(due) - 1}
    /\ sent = SubSeq(due, 1, Len(sent))

\* C8 as the specification states it: the append messages are, one for one
\* and in order, the binary frames taken, and the partial/final frames are,
\* in order, the events with text.
C8_OneForOneInOrder ==
    \A s \in Sessions :
        /\ Appends(s) = AppendsDue(s)
        /\ \A E \in {SelectSeq(Classified(s), WithText)} : Forwarded(s) = FramesOf(E)

\* C8, amended: the append messages are, in order, the binary frames taken,
\* but for the last frame when its send failed and ended the pump; the
\* partial/final frames are, in order, the events with text, but for the last
\* event when its send failed and ended the pump.
C8_InOrderButFailedSend ==
    \A s \in Sessions :
        /\ \A sent \in {Appends(s)} : \A due \in {AppendsDue(s)} :
               /\ AllButLast(sent, due)
               /\ sent # due => pumpA[s] = "raised"
        /\ \A E \in {SelectSeq(Classified(s), WithText)} :
           \A sent \in {Forwarded(s)} : \A due \in {FramesOf(E)} :
               /\ AllButLast(sent, due)
               /\ sent # due => pumpB[s] = "raised"

\* a binary frame with bytes went upstream and two events with different
\* text went to the client, among them a final one
C8_Witness ==
    \E s \in Sessions :
        /\ Len(Appends(s)) = 1
        /\ Appends(s)[1].audio # <<>>
        /\ Len(Forwarded(s)) = 2
        /\ Forwarded(s)[1].data.text # Forwarded(s)[2].data.text
        /\ Forwarded(s)[1].data.type # Forwarded(s)[2].data.type

\* this step, the upstream->client pump of s took a frame
TookEvent(s) == Len(upstreamRecv'[s]) = Len(upstreamRecv[s]) + 1

\* the type of the frame for an event of type tag evt_type
TypeDue(evt_type) ==
    IF \E m \in FinalMarkers : \E i \in 1..(Len(evt_type) - Len(m) + 1) :
           SubSeq(evt_type, i, i + Len(m) - 1) = m
    THEN "final" ELSE "partial"

\* C9 as the specification states it: an event is forwarded iff its text is
\* not empty; a forwarded event sends one frame, "final" for a final event
\* and "partial" otherwise, and is recorded in both text logs; an event with
\* no text sends nothing and is recorded nowhere.
C9_ForwardIffText ==
    [][\A s \in Sessions : TookEvent(s) =>
          \A msg \in {upstreamRecv'[s][Len(upstreamRecv'[s])]} :
              LET P == payload(events_step(msg).evt)
              IN  IF HasText(msg)
                  THEN /\ P.type = TypeDue(P.event)
                       /\ P.text = events_step(msg).evt.text
                       /\ clientSent'[s] = Append(clientSent[s], JsonText(P))
                       /\ openai_text' = KeepLast(Append(openai_text, P), RING_SIZE)
                       /\ front_text' = KeepLast(Append(front_text, P), RING_SIZE)
                  ELSE UNCHANGED <<clientSent, openai_text, front_text>>]_vars

\* C9, amended: an event with text taken while the client connection is open
\* sends one frame, "final" for a final event and "partial" otherwise, and is
\* recorded in both text logs; one taken while the client connection is not
\* open is recorded in the upstream-received text log, sends nothing, is not
\* recorded in the client-sent text log and ends the pump with the error; an
\* event with no text sends nothing and is recorded nowhere.
C9_ForwardWhenSent ==
    [][\A s \in Sessions : TookEvent(s) =>
          \A msg \in {upstreamRecv'[s][Len(upstreamRecv'[s])]} :
              LET P == payload(events_step(msg).evt)
              IN  IF HasText(msg)
                  THEN /\ P.type = TypeDue(P.event)
                       /\ P.text = events_step(msg).evt.text
                       /\ openai_text' = KeepLast(Append(openai_text, P), RING_SIZE)
                       /\ IF client[s] = "open" /\ ~ws_closed[s]
                          THEN /\ clientSent'[s] = Append(clientSent[s], JsonText(P))
                               /\ front_text' = KeepLast(Append(front_text, P), RING_SIZE)
                               /\ pumpB'[s] = "run"
                          ELSE /\ UNCHANGED <<clientSent, front_text>>
                               /\ pumpB'[s] = "raised"
                  ELSE UNCHANGED <<clientSent, openai_text, front_text>>]_vars

\* an event with neither marker went to the client as "partial", and a
\* second event with text, taken after the client had gone, is in the
\* upstream-received text log alone
C9_Witness ==
    \E s \in Sessions :
        /\ Len(upstreamRecv[s]) = 2
        /\ pumpB[s] = "raised"
        /\ Len(openai_text) = 2
        /\ Len(front_text) = 1
        /\ front_text[1].type = "partial"
        /\ front_text[1].event = T_PLAIN
        /\ clientSent[s] = <<JsonText(front_text[1])>>

\* sub occurs in tag at some position
OccursIn(tag, sub) ==
    \E i \in 1..Len(tag) :
        /\ i + Len(sub) - 1 <= Len(tag)
        /\ \A k \in 1..Len(sub) : tag[i + k - 1] = sub[k]

\* C10: the event classified from a message is never both partial and
\* final; it is final exactly when its type tag contains .done, .completed
\* or .final, and partial exactly when the tag contains .delta or .partial
\* and none of the three final markers.
C10_PartialFinalExclusive ==
    c_out.out # "none" =>
        /\ c_out.out = "yield"
        /\ c_out.evt.event_type = c_in.data.f.type.s
        /\ ~(c_out.evt.partial /\ c_out.evt.final)
        /\ c_out.evt.final <=>
               \/ OccursIn(c_out.evt.event_type, DOT_DONE)
               \/ OccursIn(c_out.evt.event_type, DOT_COMPLETED)
               \/ OccursIn(c_out.evt.event_type, DOT_FINAL)
        /\ c_out.evt.partial <=>
               /\ \/ OccursIn(c_out.evt.event_type, DOT_DELTA)
                  \/ OccursIn(c_out.evt.event_type, DOT_PARTIAL)
               /\ ~OccursIn(c_out.evt.event_type, DOT_DONE)
               /\ ~OccursIn(c_out.evt.event_type, DOT_COMPLETED)
               /\ ~OccursIn(c_out.evt.event_type, DOT_FINAL)

\* a tag with a partial and a final marker, classified as final only
C10_Witness ==
    /\ c_out.out = "yield"
    /\ c_out.evt.event_type = DOT_DELTA \o DOT_COMPLETED
    /\ c_out.evt.final
    /\ ~c_out.evt.partial

NonEmptyStr(v) == v.t = "str" /\ v.s # <<>>

\* the field key of the dict d, None when d is no dict or has no such key
Field(d, key) == IF d.t = "obj" /\ key \in DOMAIN d.f THEN d.f[key] ELSE JNull

\* the text the specification gives the message d
TextDue(d) ==
    IF NonEmptyStr(Field(d, "text")) THEN Field(d, "text").s
    ELSE IF NonEmptyStr(Field(d, "text_delta")) THEN Field(d, "text_delta").s
    ELSE IF NonEmptyStr(Field(d, "transcript")) THEN Field(d, "transcript").s
    ELSE IF NonEmptyStr(Field(d, "transcript_delta")) THEN Field(d, "transcript_delta").s
    ELSE IF NonEmptyStr(Field(Field(d, "audio"), "transcript"))
         THEN Field(Field(d, "audio"), "transcript").s
    ELSE IF NonEmptyStr(Field(d, "transcription")) THEN Field(d, "transcription").s
    ELSE IF NonEmptyStr(Field(Field(d, "response"), "output_text"))
         THEN Field(Field(d, "response"), "output_text").s
    ELSE <<>>

\* C11: the text of the event made from a message is the first of text,
\* text_delta, transcript, transcript_delta that is a non-empty string, else
\* audio.transcript, else transcription, else response.output_text, each
\* taken when it is a non-empty string, else the empty string.
C11_TextByPriority ==
    c_out.out # "none" =>
        /\ c_out.out = "yield"
        /\ c_out.evt.text = TextDue(c_in.data)

\* the last j items of seq, in order
LastItems(seq, j) == [i \in 1..j |-> seq[Len(seq) - j + i]]

Least(a, b) == IF a <= b THEN a ELSE b

\* C12: a RingLog of capacity N never holds more than N items; after k adds
\* it holds the last min(k, N) items added, in insertion order (so latest(N)
\* is the last N added once k > N); latest(m) is empty for m <= 0 and is the
\* most recent min(m, len()) items, most recent last, for m > 0.
C12_RingLog ==
    /\ Len(ring) <= ring_cap
    /\ Len(ring) = Least(Len(ring_hist), ring_cap)
    /\ ring = LastItems(ring_hist, Len(ring))
    /\ RingLog_latest(ring, ring_cap) = LastItems(ring_hist, Len(ring))
    /\ \A m \in (0 - 1)..(MaxAdds + 1) :
           RingLog_latest(ring, m) =
               IF m <= 0 THEN <<>> ELSE LastItems(ring_hist, Least(m, Len(ring)))

\* more adds than the capacity, of items that differ: the first two are gone
C12_Witness ==
    /\ ring_cap = 2
    /\ Len(ring_hist) = 4
    /\ ring_hist[1] # ring_hist[3]
    /\ ring_hist[3] # ring_hist[4]
    /\ ring = <<ring_hist[3], ring_hist[4]>>
    /\ RingLog_latest(ring, 1) = <<ring_hist[4]>>

\* the frame the pump of s took last, this step
LastFrame(s) == clientRecv'[s][Len(clientRecv'[s])]

LastEvent(s) == upstreamRecv'[s][Len(upstreamRecv'[s])]

\* msg is JSON for an object carrying a string type tag
Decodable(msg) ==
    /\ msg.json
    /\ msg.data.t = "obj"
    /\ "type" \in DOMAIN msg.data.f
    /\ msg.data.f.type.t = "str"

\* C13: an upstream frame that is not JSON, or is JSON that is not an object
\* with a string type tag, is skipped: the step that takes it sends nothing,
\* records nothing, raises nothing, and the upstream->client pump runs on.
C13_UndecodableSkipped ==
    [][\A s \in Sessions : TookEvent(s) =>
          \A msg \in {LastEvent(s)} :
              ~Decodable(msg) =>
                  /\ pumpB'[s] = "run"
                  /\ gather_exc'[s] = gather_exc[s]
                  /\ UNCHANGED <<clientSent, openai_text, front_text>>]_vars

\* txt is the control message "reset"
IsResetText(txt) ==
    /\ txt.json
    /\ txt.data.t = "obj"
    /\ "type" \in DOMAIN txt.data.f
    /\ txt.data.f.type = JStr(STR_RESET)

\* C14: a client text frame that is "flush", an unrecognized command, text
\* that is not JSON or JSON without a usable type changes nothing but the
\* count of frames taken: nothing is sent upstream or to the client, the
\* clock of every session and every log are as before, nothing is raised and
\* the client->upstream pump runs on.
C14_IgnoredTextFrame ==
    [][\A s \in Sessions : TookFrame(s) =>
          \A f \in {LastFrame(s)} :
              (f.kind = "text" /\ ~IsResetText(f.text)) =>
                  /\ pumpA'[s] = "run"
                  /\ UNCHANGED <<upstreamSent, clientSent, audio_time_s, clock_log,
                                 logs, gather_exc, mpc, exc, pumpB>>]_vars

\* text that is not JSON and a flush were taken, and the binary frame after
\* them was sent upstream and advanced the clock
C14_Witness ==
    /\ Len(clientRecv[1]) = 3
    /\ clientRecv[1][1] = [kind |-> "text", text |-> NotJson]
    /\ clientRecv[1][2] = [kind |-> "text", text |-> ClientTexts[2]]
    /\ clientRecv[1][3] = [kind |-> "bytes", bytes |-> Raws[2]]
    /\ Len(upstreamSent[1]) = 2
    /\ upstreamSent[1][2].type = "input_audio_buffer.append"
    /\ ~IsZero(audio_time_s[1])
    /\ pumpA[1] = "run"
    /\ clientSent[1] = <<>>

\* C15: a write that fails ends the pump that attempted it: the append or
\* the clear message in the client->upstream pump, the transcript frame in
\* the upstream->client pump.
C15_FailedWriteFatal ==
    [][\A s \in Sessions :
          /\ TookFrame(s) =>
                 \A e \in {clock_log'[s]} :
                     (Len(e) > Len(clock_log[s]) /\ e[Len(e)].raised) =>
                         pumpA'[s] = "raised"
          /\ TookEvent(s) =>
                 \A msg \in {LastEvent(s)} :
                     (HasText(msg) /\ ~ClientUp(s)) => pumpB'[s] = "raised"]_vars

\* C19: a send_audio_chunk that fails leaves the clock as it was.
C19_FailedChunkKeepsClock ==
    [][\A s \in Sessions :
          (TookFrame(s) /\ pumpA[s] = "run" /\ pumpA'[s] = "raised") =>
              audio_time_s'[s] = audio_time_s[s]]_vars

IsErrorFrame(m) == m.json /\ m.data.type = "error"

\* the handler of s is past its except clauses
Caught(s) == exc[s] # "none" /\ mpc[s] \in {"finally", "closing", "ws_close", "done"}

\* no close before the except clause is over
CloseAfterReport(s) ==
    /\ mpc[s] \in {"error_send", "finally"} => close_calls[s] = 0 /\ conn_closes[s] = 0
    /\ mpc[s] # "done" => ~ws_closed[s]
    /\ err_attempts[s] > 0 => mpc[s] \in {"finally", "closing", "ws_close", "done"}

\* C16 as the specification states it: for any exception the handler caught,
\* one attempt to send the error frame was made, before session.close() and
\* before ws.close(); a session never makes more than one attempt and never
\* sends more than one error frame.
C16_OneErrorFrameAttempt ==
    \A s \in Sessions :
        /\ Caught(s) => err_attempts[s] = 1
        /\ err_attempts[s] <= 1
        /\ Count(clientSent[s], IsErrorFrame) <= err_attempts[s]
        /\ CloseAfterReport(s)

\* C16, amended: for any exception the handler caught other than
\* WebSocketDisconnect, one attempt to send the error frame was made, before
\* session.close() and before ws.close(), and the handler went on to the
\* teardown whether or not the frame was sent; for WebSocketDisconnect no
\* attempt is made; a session never sends more than one error frame.
C16_ErrorFrameUnlessDisconnect ==
    \A s \in Sessions :
        /\ (Caught(s) /\ exc[s] # "WebSocketDisconnect") => err_attempts[s] = 1
        /\ exc[s] = "WebSocketDisconnect" => err_attempts[s] = 0
        /\ err_attempts[s] <= 1
        /\ Count(clientSent[s], IsErrorFrame) <= err_attempts[s]
        /\ CloseAfterReport(s)

\* a pump raised while the client was gone: the attempt was made, no frame
\* was sent, and the teardown is over
C16_Witness ==
    /\ mpc[1] = "done"
    /\ gather_exc[1] = "Exception"
    /\ exc[1] = "Exception"
    /\ err_attempts[1] = 1
    /\ Count(clientSent[1], IsErrorFrame) = 0
    /\ close_calls[1] = 1
    /\ ws_closed[1]

\* connect() raised in the handler of s: the handler caught an exception
\* that no pump raised
ConnectFailed(s) == exc[s] # "none" /\ gather_exc[s] = "none"

\* C17: when connect() fails after the accept, neither pump is ever started,
\* no client frame is read, nothing is sent upstream and nothing is taken
\* from the upstream; one session was built and no second one; the error
\* frame is attempted once, and sent when the client is still there; the
\* handler then closes the client connection.
C17_ConnectFailure ==
    \A s \in Sessions : ConnectFailed(s) =>
        /\ exc[s] = "Exception"
        /\ mpc[s] \in {"error_send", "finally", "closing", "ws_close", "done"}
        /\ pumpA[s] = "off" /\ pumpB[s] = "off"
        /\ clientRecv[s] = <<>> /\ upstreamRecv[s] = <<>>
        /\ upstreamSent[s] = <<>>
        /\ IsZero(audio_time_s[s])
        /\ created[s] = 1
        /\ mpc[s] = "error_send" => err_attempts[s] = 0 /\ clientSent[s] = <<>>
        /\ mpc[s] # "error_send" =>
               /\ err_attempts[s] = 1
               /\ \/ clientSent[s] = <<error_frame("Exception")>>
                  \/ clientSent[s] = <<>> /\ client[s] # "open"
        /\ mpc[s] = "done" => ws_closed[s]

\* connect() failed, the client got the error frame and its connection is
\* closed
C17_Witness ==
    /\ ConnectFailed(1)
    /\ self_ws[1] = "None"
    /\ upstream[1] = "none"
    /\ mpc[1] = "done"
    /\ clientSent[1] = <<error_frame("Exception")>>
    /\ ws_closed[1]
    /\ created[1] = 1

\* C18: the first message a session sends upstream is session.update, it is
\* sent once, and it has been sent before either pump runs; so no append or
\* clear comes before it.  (No code path calls commit().)
C18_HandshakeFirst ==
    \A s \in Sessions :
        /\ upstreamSent[s] # <<>> => upstreamSent[s][1] = session_update
        /\ \A i \in 2..Len(upstreamSent[s]) : upstreamSent[s][i].type # "session.update"
        /\ (pumpA[s] # "off" \/ pumpB[s] # "off") => upstreamSent[s] # <<>>

\* session.update, then an append and a clear
C18_Witness ==
    /\ Len(upstreamSent[1]) = 3
    /\ upstreamSent[1][1] = session_update
    /\ upstreamSent[1][2].type = "input_audio_buffer.append"
    /\ upstreamSent[1][3].type = "input_audio_buffer.clear"

\* everything handler s, its session and its two pumps hold
Own(s) ==
    <<mpc[s], client[s], ws_closed[s], created[s], self_ws[s], audio_time_s[s],
      upstream[s], conn_closes[s], close_calls[s], pumpA[s], pumpB[s], gather_exc[s],
      exc[s], err_attempts[s], clientRecv[s], upstreamSent[s], upstreamRecv[s],
      clientSent[s], clock_log[s]>>

\* C20: a step of one session (a chunk, a reset, an event, a pump error, a
\* teardown step, the loss of one of its connections) leaves the clock, the
\* upstream connection, the pumps and everything else of every other session
\* as it was; the clock of a session changes only in a step in which its
\* client->upstream pump takes a frame.  What a step changes beyond the one
\* session is the four logs.
C20_SessionsIndependent ==
    [][\A s \in Sessions :
          /\ Own(s)' # Own(s) => \A t \in Sessions \ {s} : Own(t)' = Own(t)
          /\ audio_time_s'[s] # audio_time_s[s] => TookFrame(s) /\ pumpA[s] = "run"]_vars

\* session 1 is torn down after a chunk; session 2 runs on, and its own chunk
\* started at zero on its own clock; the chunk log holds the two chunks
C20_Witness ==
    /\ mpc[1] = "done"
    /\ Len(clientRecv[1]) = 1
    /\ ~IsZero(audio_time_s[1])
    /\ mpc[2] = "gather"
    /\ pumpA[2] = "run" /\ pumpB[2] = "run"
    /\ upstream[2] = "open"
    /\ ~IsZero(audio_time_s[2])
    /\ Len(front_chunks) = 2
    /\ IsZero(front_chunks[1].start_s)
    /\ IsZero(front_chunks[2].start_s)

====
